---- MODULE Spec2Model ----
(***************************************************************************)
(* ecom-tools: order / income reconciliation.                              *)
(*                                                                         *)
(* OrderService (src/services/order_service.py) and IncomeService          *)
(* (src/services/income_service.py) hold pandas frames that are parsed     *)
(* lazily from a spreadsheet source; the Flask blueprint                   *)
(* (src/app/routes.py) builds both per POST and keeps the last export in a *)
(* module-level global.                                                    *)
(*                                                                         *)
(* Strings are sequences of one-character strings, so that strip(),        *)
(* lower() and the substring test are computed and not assumed.  A cell is *)
(* an integer, a string or NaN; a frame is its column labels, the dtype    *)
(* pandas gives each column, and its rows.                                 *)
(***************************************************************************)
EXTENDS Integers, Sequences, FiniteSets, TLC

(***************************************************************************)
(* Bounds of the model.                                                    *)
(***************************************************************************)
MaxOrderRows == 2
MaxIncomeRows == 2
SheetRows == 31

(***************************************************************************)
(* Strings.                                                                *)
(***************************************************************************)
UpperCase ==
  << "A","B","C","D","E","F","G","H","I","J","K","L","M",
     "N","O","P","Q","R","S","T","U","V","W","X","Y","Z" >>

LowerCase ==
  << "a","b","c","d","e","f","g","h","i","j","k","l","m",
     "n","o","p","q","r","s","t","u","v","w","x","y","z" >>

LowerMap ==
  [c \in {UpperCase[i] : i \in 1..Len(UpperCase)} |->
     LowerCase[CHOOSE i \in 1..Len(UpperCase) : UpperCase[i] = c]]

LowerChar(c) == IF c \in DOMAIN LowerMap THEN LowerMap[c] ELSE c

\* str.lower()
Lower(s) == [i \in 1..Len(s) |-> LowerChar(s[i])]

RECURSIVE LStrip(_)
LStrip(s) == IF s # <<>> /\ Head(s) = " " THEN LStrip(Tail(s)) ELSE s

RECURSIVE RStrip(_)
RStrip(s) ==
  IF s # <<>> /\ s[Len(s)] = " " THEN RStrip(SubSeq(s, 1, Len(s) - 1)) ELSE s

\* str.strip()
Strip(s) == RStrip(LStrip(s))

\* Python's  k in v  on strings
Contains(k, v) ==
  \E i \in 1..(Len(v) - Len(k) + 1) : SubSeq(v, i, i + Len(k) - 1) = k

DigitChars == << "0","1","2","3","4","5","6","7","8","9" >>

RECURSIVE NatStr(_)
NatStr(n) ==
  IF n < 10 THEN << DigitChars[n + 1] >>
  ELSE NatStr(n \div 10) \o << DigitChars[(n % 10) + 1] >>

\* str(n) of a Python int
IntStr(n) == IF n < 0 THEN << "-" >> \o NatStr(0 - n) ELSE NatStr(n)

IsDigit(c) == \E i \in 1..10 : DigitChars[i] = c

DigitVal(c) == (CHOOSE i \in 1..10 : DigitChars[i] = c) - 1

RECURSIVE NatVal(_)
NatVal(s) ==
  IF Len(s) = 1 THEN DigitVal(s[1])
  ELSE 10 * NatVal(SubSeq(s, 1, Len(s) - 1)) + DigitVal(s[Len(s)])

(***************************************************************************)
(* Cells, and the conversions pandas applies to a column of them.          *)
(***************************************************************************)
IntCell(n) == [t |-> "int", n |-> n, s |-> <<>>]
StrCell(s) == [t |-> "str", n |-> 0, s |-> s]
NaN == [t |-> "nan", n |-> 0, s |-> <<>>]

None == <<>>
Some(x) == << x >>
Get(opt) == opt[1]

\* The dtype pandas infers for a parsed column: a string cell makes it object,
\* a missing cell among numbers makes it float64, integers alone int64.
Dtype(cells) ==
  IF \E i \in 1..Len(cells) : cells[i].t = "str" THEN "object"
  ELSE IF \E i \in 1..Len(cells) : cells[i].t = "nan" THEN "float64"
  ELSE "int64"

\* One element of  Series.astype(str) : a float64 column prints its whole
\* numbers with a decimal point, NaN prints as "nan".
AsStr(cell, dtype) ==
  CASE cell.t = "str" -> cell.s
    [] cell.t = "nan" -> << "n","a","n" >>
    [] OTHER -> IF dtype = "float64" THEN IntStr(cell.n) \o << ".","0" >>
                ELSE IntStr(cell.n)

\* One element of  pd.to_numeric(..., errors="coerce").fillna(0)
ToNumeric(cell) ==
  CASE cell.t = "int" -> cell.n
    [] cell.t = "nan" -> 0
    [] OTHER ->
       LET u == Strip(cell.s)
           neg == u # <<>> /\ Head(u) = "-"
           d == IF neg THEN Tail(u) ELSE u
       IN IF d # <<>> /\ \A i \in 1..Len(d) : IsDigit(d[i])
            THEN (IF neg THEN 0 - NatVal(d) ELSE NatVal(d))
            ELSE 0

(***************************************************************************)
(* Named strings of the source.                                            *)
(***************************************************************************)
sOrderID == << "O","r","d","e","r"," ","I","D" >>
sOrderStatus == << "O","r","d","e","r"," ","S","t","a","t","u","s" >>
sCancelReason == << "C","a","n","c","e","l"," ","r","e","a","s","o","n" >>
sProvince == << "P","r","o","v","i","n","c","e" >>
sProductName == << "P","r","o","d","u","c","t"," ","N","a","m","e" >>
sQuantity == << "Q","u","a","n","t","i","t","y" >>
sProductSubtotal ==
  << "P","r","o","d","u","c","t"," ","S","u","b","t","o","t","a","l" >>
sCompleted == << "C","o","m","p","l","e","t","e","d" >>
sDelivered == << "D","e","l","i","v","e","r","e","d" >>
sOrderReceived ==
  << "O","r","d","e","r"," ","R","e","c","e","i","v","e","d" >>
sCancelled == << "C","a","n","c","e","l","l","e","d" >>
sFailed == << "f","a","i","l","e","d" >>
sMetroManila == << "M","e","t","r","o"," ","M","a","n","i","l","a" >>
sSouthLuzon == << "S","o","u","t","h"," ","L","u","z","o","n" >>
sNorthLuzon == << "N","o","r","t","h"," ","L","u","z","o","n" >>
sLuzon == << "L","u","z","o","n" >>
sVisayas == << "V","i","s","a","y","a","s" >>
sMindanao == << "M","i","n","d","a","n","a","o" >>
sUnknown == << "U","n","k","n","o","w","n" >>

\* Characters in code-point order, for Python's string comparison.
Alphabet ==
  << " ", "(", ")", "*", "-", ".", "0","1","2","3","4","5","6","7","8","9" >>
  \o UpperCase \o LowerCase

CharOrdMap ==
  [c \in {Alphabet[i] : i \in 1..Len(Alphabet)} |->
     CHOOSE i \in 1..Len(Alphabet) : Alphabet[i] = c]

CharOrd(c) == IF c \in DOMAIN CharOrdMap THEN CharOrdMap[c] ELSE Len(Alphabet) + 1

RECURSIVE StrLess(_, _)
StrLess(a, b) ==
  IF b = <<>> THEN FALSE
  ELSE IF a = <<>> THEN TRUE
  ELSE IF Head(a) = Head(b) THEN StrLess(Tail(a), Tail(b))
  ELSE CharOrd(Head(a)) < CharOrd(Head(b))

(***************************************************************************)
(* Frames.                                                                 *)
(***************************************************************************)
ColumnCells(rows, j) == [i \in 1..Len(rows) |-> rows[i][j]]

\* The frame pandas builds from parsed labels and rows.
Frame(columns, rows) ==
  [columns |-> columns,
   dtypes |-> [j \in 1..Len(columns) |-> Dtype(ColumnCells(rows, j))],
   rows |-> rows]

HasCol(f, name) == \E j \in 1..Len(f.columns) : f.columns[j] = name

Col(f, name) ==
  CHOOSE j \in 1..Len(f.columns) :
    /\ f.columns[j] = name
    /\ \A k \in 1..(j - 1) : f.columns[k] # name

\* f[name].astype(str)
ColStr(f, name) ==
  LET j == Col(f, name)
  IN [i \in 1..Len(f.rows) |-> AsStr(f.rows[i][j], f.dtypes[j])]

RECURSIVE MaskSeq(_, _)
MaskSeq(xs, m) ==
  IF xs = <<>> THEN <<>>
  ELSE (IF Head(m) THEN << Head(xs) >> ELSE <<>>) \o MaskSeq(Tail(xs), Tail(m))

\* f[mask] : the rows where the boolean mask holds, dtypes kept.
RowsWhere(f, m) == [f EXCEPT !.rows = MaskSeq(f.rows, m)]

RECURSIVE SumSeq(_)
SumSeq(xs) == IF xs = <<>> THEN 0 ELSE Head(xs) + SumSeq(Tail(xs))

Abs(n) == IF n < 0 THEN 0 - n ELSE n

(***************************************************************************)
(* Outcome of a call: the objects' state after it, and what it returned or *)
(* raised.                                                                 *)
(***************************************************************************)
Ok(s, v) == [s |-> s, ok |-> TRUE, err |-> <<>>, val |-> v]

Raise(s, type, what, arg) ==
  [s |-> s, ok |-> FALSE, err |-> << type, what, arg >>, val |-> <<>>]

\* The exception leaves the callee and passes through the caller.
Propagate(r) == [s |-> r.s, ok |-> FALSE, err |-> r.err, val |-> <<>>]

\* The statements K after a call with outcome r: skipped when the call raised.
Then(r, K(_)) == IF r.ok THEN K(r) ELSE Propagate(r)

\* The statements K after the assignment of x.
Let(x, K(_)) == K(x)

(***************************************************************************)
(* OrderService.  s is the state of the two objects:                       *)
(*   s.osrc, s.isrc        the sources given to the constructors           *)
(*   s.df                  OrderService.df (None until parsed)             *)
(*   s.income_df           IncomeService.income_df                         *)
(*   s.order_id_column     IncomeService.order_id_column                   *)
(*   s.header_row          what _detect_header_row last returned           *)
(*   s.parsed              the sources parsed during the current call      *)
(***************************************************************************)
TopN == 20

\* pd.read_excel(self.source): the orders sheet as labels and rows.
ReadOrders(osrc) == Frame(osrc.labels, osrc.rows)

\* df.columns = df.columns.str.strip()
StripColumns(f) ==
  [f EXCEPT !.columns = [j \in 1..Len(f.columns) |-> Strip(f.columns[j])]]

\* lines 21-28 of load_data: parse the source and keep the frame
ParseOrders(s) ==
  [s EXCEPT !.df = Some(StripColumns(ReadOrders(s.osrc))),
            !.parsed = @ \cup {"orders"}]

\* load_data without the guard of lines 18-19
load_data_unguarded(s) == ParseOrders(s)

\* OrderService.load_data
load_data(s) == IF s.df # None THEN s ELSE ParseOrders(s)

\* the boolean mask  df["Order Status"].astype(str).str.lower() == "completed"
CompletedMask(f) ==
  Let(ColStr(f, sOrderStatus), LAMBDA st :
    [i \in 1..Len(f.rows) |-> Lower(st[i]) = Lower(sCompleted)])

\* OrderService.get_completed_orders
get_completed_orders(s) ==
  Let(IF s.df = None THEN load_data(s) ELSE s, LAMBDA s1 :
    IF ~HasCol(Get(s1.df), sOrderStatus)
      THEN Raise(s1, "KeyError", "column", sOrderStatus)
      ELSE Ok(s1, RowsWhere(Get(s1.df), CompletedMask(Get(s1.df)))))

\* OrderService.get_completed_count
get_completed_count(s) ==
  Then(get_completed_orders(s), LAMBDA r : Ok(r.s, Len(r.val.rows)))

\* OrderService.get_summary
get_summary(s) ==
  Let(IF s.df = None THEN load_data(s) ELSE s, LAMBDA s1 :
    Then(get_completed_count(s1), LAMBDA r :
      Ok(r.s, [total_orders |-> Len(Get(s1.df).rows),
               completed_orders |-> r.val])))

\* sum of  pd.to_numeric(f[name], errors="coerce").fillna(0)
NumericSum(f, name) ==
  Let(Col(f, name), LAMBDA j :
    SumSeq([i \in 1..Len(f.rows) |-> ToNumeric(f.rows[i][j])]))

\* OrderService.get_projected_income_total
get_projected_income_total(s) ==
  Then(get_completed_orders(s), LAMBDA r :
    IF ~HasCol(r.val, sProductSubtotal)
      THEN Raise(r.s, "ValueError", "missing column", sProductSubtotal)
      ELSE Ok(r.s, NumericSum(r.val, sProductSubtotal)))

RequiredColumns == << sProductName, sQuantity, sProductSubtotal >>

\* the first of required_columns that the frame lacks (the loop raises there)
FirstMissing(f) ==
  LET miss == {k \in 1..Len(RequiredColumns) : ~HasCol(f, RequiredColumns[k])}
  IN IF miss = {} THEN None
     ELSE Some(RequiredColumns[CHOOSE k \in miss : \A m \in miss : k <= m])

\* groupby("Product Name").agg(sum): one record per product name, in key
\* order; rows without a name (NaN) belong to no group.
GroupKeys(f) ==
  Let(ColumnCells(f.rows, Col(f, sProductName)), LAMBDA names :
    {AsStr(names[i], "object") : i \in {k \in 1..Len(names) : names[k].t # "nan"}})

GroupOf(f, key) ==
  Let(ColumnCells(f.rows, Col(f, sProductName)), LAMBDA names :
    Let(RowsWhere(f, [i \in 1..Len(names) |->
                        /\ names[i].t # "nan"
                        /\ AsStr(names[i], "object") = key]), LAMBDA g :
      [name |-> key,
       qty |-> NumericSum(g, sQuantity),
       revenue |-> NumericSum(g, sProductSubtotal)]))

\* the groups sorted by (revenue, then key order), ascending or descending on
\* revenue; equal revenues keep the grouping's key order.
RECURSIVE SortGroups(_, _)
SortGroups(gs, ascending) ==
  IF gs = {} THEN <<>>
  ELSE Let(CHOOSE g \in gs : \A h \in gs :
             \/ h = g
             \/ (IF ascending THEN g.revenue < h.revenue
                              ELSE g.revenue > h.revenue)
             \/ (g.revenue = h.revenue /\ StrLess(g.name, h.name)),
           LAMBDA first : << first >> \o SortGroups(gs \ {first}, ascending))

HeadN(xs, n) == SubSeq(xs, 1, IF Len(xs) < n THEN Len(xs) ELSE n)

ProductRanking(s, ascending) ==
  Then(get_completed_orders(s), LAMBDA r :
    Let(FirstMissing(r.val), LAMBDA col :
      IF col # None
        THEN Raise(r.s, "ValueError", "missing column", Get(col))
        ELSE Ok(r.s, HeadN(SortGroups({GroupOf(r.val, k) : k \in GroupKeys(r.val)},
                                      ascending), TopN))))

\* OrderService.get_top_20_products_completed
get_top_20_products_completed(s) == ProductRanking(s, FALSE)

\* OrderService.get_top_20_least_products_completed
get_top_20_least_products_completed(s) == ProductRanking(s, TRUE)

\* map_region
map_region(province) ==
  IF province \in {sMetroManila, sSouthLuzon, sNorthLuzon} THEN sLuzon
  ELSE IF province = sVisayas THEN sVisayas
  ELSE IF province = sMindanao THEN sMindanao
  ELSE sUnknown

RegionNames == << sLuzon, sMindanao, sUnknown, sVisayas >>

\* f[name].astype(str).str.strip()
StrippedColumn(f, name) ==
  Let(ColStr(f, name), LAMBDA c : [i \in 1..Len(c) |-> Strip(c[i])])

\* is_completed
IsCompletedStatus(status) == status \in {sCompleted, sDelivered, sOrderReceived}

\* is_failed
IsFailedDelivery(status, reason) ==
  status = sCancelled /\ Contains(sFailed, Lower(reason))

\* one record of the grouped summary: the rows kept (completed or failed)
\* whose region is g
RegionEntry(status, reason, region, g) ==
  Let({i \in 1..Len(status) :
         /\ region[i] = g
         /\ (IsCompletedStatus(status[i]) \/ IsFailedDelivery(status[i], reason[i]))},
      LAMBDA rows :
        [region |-> g,
         total_orders |-> Cardinality(rows),
         completed_delivered |->
           Cardinality({i \in rows : IsCompletedStatus(status[i])}),
         failed_deliveries |->
           Cardinality({i \in rows : IsFailedDelivery(status[i], reason[i])})])

\* lines 186-242 of get_region_analysis_summary on the three stripped columns:
\* one record per region that has a kept row, in the order of the region names
RegionSummary(status, reason, province) ==
  Let([i \in 1..Len(province) |-> map_region(province[i])], LAMBDA region :
    Let([k \in 1..Len(RegionNames) |->
           RegionEntry(status, reason, region, RegionNames[k])], LAMBDA entries :
      MaskSeq(entries, [k \in 1..Len(entries) |-> entries[k].total_orders > 0])))

\* OrderService.get_region_analysis_summary
\* df.get("Cancel reason", "") is the string "" when the column is absent,
\* and a str has no astype.
get_region_analysis_summary(s) ==
  Let(IF s.df = None THEN load_data(s) ELSE s, LAMBDA s1 :
    IF ~HasCol(Get(s1.df), sOrderStatus)
      THEN Raise(s1, "KeyError", "column", sOrderStatus)
    ELSE IF ~HasCol(Get(s1.df), sCancelReason)
      THEN Raise(s1, "AttributeError", "astype", sCancelReason)
    ELSE IF ~HasCol(Get(s1.df), sProvince)
      THEN Raise(s1, "KeyError", "column", sProvince)
    ELSE Ok(s1, RegionSummary(StrippedColumn(Get(s1.df), sOrderStatus),
                              StrippedColumn(Get(s1.df), sCancelReason),
                              StrippedColumn(Get(s1.df), sProvince))))

(***************************************************************************)
(* Strings of IncomeService: keywords (k), normalized column labels (c) and *)
(* display labels (d).  The peso sign is the one-character token "peso".   *)
(***************************************************************************)
kOrderId == << "o","r","d","e","r"," ","i","d" >>
kOrderNo == << "o","r","d","e","r"," ","n","o" >>
kOrderNumber == << "o","r","d","e","r"," ","n","u","m","b","e","r" >>
kOrderSn == << "o","r","d","e","r","s","n" >>
cRefundId == << "r","e","f","u","n","d"," ","i","d" >>
cRefundAmount == << "r","e","f","u","n","d"," ","a","m","o","u","n","t" >>
cReverseShippingFee ==
  << "r","e","v","e","r","s","e"," ","s","h","i","p","p","i","n","g"," ",
     "f","e","e" >>
cShippingFeeRebate ==
  << "s","h","i","p","p","i","n","g"," ","f","e","e"," ","r","e","b","a",
     "t","e"," ","f","r","o","m"," ","s","h","o","p","e","e" >>
cThirdPartyLogistics ==
  << "3","r","d"," ","p","a","r","t","y"," ","l","o","g","i","s","t","i",
     "c","s"," ","-"," ","d","e","f","i","n","e","d"," ","s","h","i","p",
     "p","i","n","g"," ","f","e","e" >>
cBuyerPaidShippingFee ==
  << "b","u","y","e","r"," ","p","a","i","d"," ","s","h","i","p","p","i",
     "n","g"," ","f","e","e" >>
cCashRefund ==
  << "c","a","s","h"," ","r","e","f","u","n","d"," ","t","o"," ","b","u",
     "y","e","r"," ","a","m","o","u","n","t" >>
cTotalReleased ==
  << "t","o","t","a","l"," ","r","e","l","e","a","s","e","d"," ","a","m",
     "o","u","n","t"," ","(","peso",")" >>
cAmsCommissionFee ==
  << "a","m","s"," ","c","o","m","m","i","s","s","i","o","n"," ","f","e",
     "e" >>
cCommissionFee ==
  << "c","o","m","m","i","s","s","i","o","n"," ","f","e","e" >>
cServiceFee == << "s","e","r","v","i","c","e"," ","f","e","e" >>
cSupportProgramFee ==
  << "s","u","p","p","o","r","t"," ","p","r","o","g","r","a","m"," ","f",
     "e","e" >>
cTransactionFee ==
  << "t","r","a","n","s","a","c","t","i","o","n"," ","f","e","e" >>
cWithholdingTax ==
  << "w","i","t","h","h","o","l","d","i","n","g"," ","t","a","x" >>
cUsernameBuyer ==
  << "u","s","e","r","n","a","m","e"," ","(","b","u","y","e","r",")" >>
cOrderCreationDate ==
  << "o","r","d","e","r"," ","c","r","e","a","t","i","o","n"," ","d","a",
     "t","e" >>
cTrackingNumber ==
  << "t","r","a","c","k","i","n","g"," ","n","u","m","b","e","r","*" >>
cEstimatedShipOut ==
  << "e","s","t","i","m","a","t","e","d"," ","s","h","i","p"," ","o","u",
     "t"," ","d","a","t","e" >>
cProductName == << "p","r","o","d","u","c","t"," ","n","a","m","e" >>
cVariationName ==
  << "v","a","r","i","a","t","i","o","n"," ","n","a","m","e" >>
cOriginalPrice ==
  << "o","r","i","g","i","n","a","l"," ","p","r","i","c","e" >>
cDealPrice == << "d","e","a","l"," ","p","r","i","c","e" >>
cProductSubtotal ==
  << "p","r","o","d","u","c","t"," ","s","u","b","t","o","t","a","l" >>
dRefundId == << "R","e","f","u","n","d"," ","I","D" >>
dRefundAmount == << "R","e","f","u","n","d"," ","A","m","o","u","n","t" >>
dReverseShippingFee ==
  << "R","e","v","e","r","s","e"," ","S","h","i","p","p","i","n","g"," ",
     "F","e","e" >>
dShippingFeeRebate ==
  << "S","h","i","p","p","i","n","g"," ","F","e","e"," ","R","e","b","a",
     "t","e"," ","F","r","o","m"," ","S","h","o","p","e","e" >>
dThirdPartyLogistics ==
  << "3","r","d"," ","P","a","r","t","y"," ","L","o","g","i","s","t","i",
     "c","s"," ","-"," ","D","e","f","i","n","e","d"," ","S","h","i","p",
     "p","i","n","g"," ","F","e","e" >>
dBuyerPaidShippingFee ==
  << "B","u","y","e","r"," ","P","a","i","d"," ","S","h","i","p","p","i",
     "n","g"," ","F","e","e" >>
dCashRefund ==
  << "C","a","s","h"," ","R","e","f","u","n","d"," ","t","o"," ","B","u",
     "y","e","r"," ","A","m","o","u","n","t" >>
dTotalReleased ==
  << "T","o","t","a","l"," ","R","e","l","e","a","s","e","d"," ","A","m",
     "o","u","n","t"," ","(","peso",")" >>
dUsernameBuyer ==
  << "U","s","e","r","n","a","m","e"," ","(","B","u","y","e","r",")" >>
dOrderCreationDate ==
  << "O","r","d","e","r"," ","C","r","e","a","t","i","o","n"," ","D","a",
     "t","e" >>
dTrackingNumber ==
  << "T","r","a","c","k","i","n","g"," ","N","u","m","b","e","r" >>
dEstimatedShipOut ==
  << "E","s","t","i","m","a","t","e","d"," ","S","h","i","p"," ","O","u",
     "t"," ","D","a","t","e" >>
dVariationName ==
  << "V","a","r","i","a","t","i","o","n"," ","N","a","m","e" >>
dOriginalPrice ==
  << "O","r","i","g","i","n","a","l"," ","P","r","i","c","e" >>
dDealPrice == << "D","e","a","l"," ","P","r","i","c","e" >>
sIncome == << "I","n","c","o","m","e" >>
sSheet1 == << "S","h","e","e","t","1" >>

(***************************************************************************)
(* IncomeService.                                                          *)
(*                                                                         *)
(* The income source is a workbook: a sequence of sheets, each with a      *)
(* name, the grid its header-less read shows (grid), and the labelled      *)
(* table its read with header=header_row returns (table).                  *)
(***************************************************************************)
NRows == 30
Limit == 50

Keywords == << kOrderId, kOrderNo, kOrderNumber, kOrderSn >>

\* "Income" if "Income" in sheet_names else sheet_names[0]
PickSheet(isrc) ==
  IF \E k \in 1..Len(isrc.sheets) : isrc.sheets[k].name = sIncome
    THEN isrc.sheets[CHOOSE k \in 1..Len(isrc.sheets) :
                       /\ isrc.sheets[k].name = sIncome
                       /\ \A m \in 1..(k - 1) : isrc.sheets[m].name # sIncome]
    ELSE isrc.sheets[1]

\* the header-less read without nrows=30
ReadWholeSheet(sheet) == sheet.grid

\* pd.read_excel(excel, sheet_name, header=None, nrows=30)
ReadPreview(sheet) == HeadN(sheet.grid, NRows)

\* any(any(k in v for k in keywords) for v in row.astype(str).str.lower())
RowHasKeyword(row) ==
  \E j \in 1..Len(row) : \E k \in 1..Len(Keywords) :
    Contains(Keywords[k], Lower(AsStr(row[j], Dtype(row))))

\* IncomeService._detect_header_row: the index (from 0) of the first row, from
\* row idx on, that holds a keyword; None when the rows run out.
RECURSIVE ScanRows(_, _)
ScanRows(preview, idx) ==
  IF idx >= Len(preview) THEN None
  ELSE IF RowHasKeyword(preview[idx + 1]) THEN Some(idx)
  ELSE ScanRows(preview, idx + 1)

detect_header_row(preview) == ScanRows(preview, 0)

\* pd.read_excel(excel, sheet_name, header=header_row)
ReadWithHeader(sheet, header_row) == Frame(sheet.table.labels, sheet.table.rows)

\* IncomeService._detect_order_id_column: the first column, in column order,
\* whose label contains a candidate.
detect_order_id_column(columns) ==
  Let({j \in 1..Len(columns) :
         \E k \in 1..Len(Keywords) : Contains(Keywords[k], columns[j])},
      LAMBDA hit :
        IF hit = {} THEN None
        ELSE Some(columns[CHOOSE j \in hit : \A m \in hit : j <= m]))

\* columns.astype(str).str.strip().str.lower()
NormalizeLower(columns) ==
  [j \in 1..Len(columns) |-> Lower(Strip(columns[j]))]

\* f.columns = f.columns.astype(str).str.strip().str.lower()
NormalizeColumns(f) == [f EXCEPT !.columns = NormalizeLower(f.columns)]

\* IncomeService.load_income_data
load_income_data(s) ==
  IF s.income_df # None THEN Ok(s, None)
  ELSE
    Let(PickSheet(s.isrc), LAMBDA sheet :
    Let(detect_header_row(ReadPreview(sheet)), LAMBDA h :
    Let([s EXCEPT !.parsed = @ \cup {"income"}, !.header_row = h], LAMBDA s1 :
      IF h = None
        THEN Raise(s1, "ValueError", "header row", <<>>)
        ELSE
          Let(NormalizeColumns(ReadWithHeader(sheet, Get(h))), LAMBDA g :
          Let(detect_order_id_column(g.columns), LAMBDA c :
          Let([s1 EXCEPT !.income_df = Some(g), !.order_id_column = c], LAMBDA s2 :
            IF c = None
              THEN Raise(s2, "ValueError", "order id column", g.columns)
              ELSE Ok(s2, None)))))))

\* IncomeService._safe_sum
safe_sum(f, column_name) ==
  IF ~HasCol(f, Lower(column_name)) THEN 0
  ELSE NumericSum(f, Lower(column_name))

\* set(f[name].astype(str).str.strip())
IdSet(f, name) ==
  Let(ColStr(f, name), LAMBDA c : {Strip(c[i]) : i \in 1..Len(c)})

\* f[name].astype(str).str.strip().isin(ids)
IsinMask(f, name, ids) ==
  Let(ColStr(f, name), LAMBDA c : [i \in 1..Len(c) |-> Strip(c[i]) \in ids])

\* the mask of line 110 without its ~
SameMask(m) == m

\* ~mask
NotMask(m) == [i \in 1..Len(m) |-> ~m[i]]

\* IncomeService.get_income_order_ids
\* With order_id_column None the subscript income_df[None] is a KeyError.
get_income_order_ids(s) ==
  Then(IF s.income_df = None THEN load_income_data(s) ELSE Ok(s, None), LAMBDA l :
    IF l.s.order_id_column = None
      THEN Raise(l.s, "KeyError", "column", None)
      ELSE Ok(l.s, IdSet(Get(l.s.income_df), Get(l.s.order_id_column))))

\* set(order_service.get_completed_orders()["Order ID"].astype(str).str.strip())
completed_ids(s) ==
  Then(get_completed_orders(s), LAMBDA r :
    IF ~HasCol(r.val, sOrderID)
      THEN Raise(r.s, "KeyError", "column", sOrderID)
      ELSE Ok(r.s, IdSet(r.val, sOrderID)))

\* IncomeService.find_missing_income_orders
find_missing_income_orders(s) ==
  Then(get_completed_orders(s), LAMBDA r :
    Then(get_income_order_ids(r.s), LAMBDA i :
      IF ~HasCol(r.val, sOrderID)
        THEN Raise(i.s, "KeyError", "column", sOrderID)
        ELSE Ok(i.s, RowsWhere(r.val, NotMask(IsinMask(r.val, sOrderID, i.val))))))

\* IncomeService.get_reconciliation_summary
get_reconciliation_summary(s) ==
  Then(completed_ids(s), LAMBDA c :
    Then(get_income_order_ids(c.s), LAMBDA i :
      Ok(i.s, [completed_orders |-> Cardinality(c.val),
               orders_with_income |-> Cardinality(i.val),
               missing_income_orders |-> Cardinality(c.val \ i.val)])))

\* f[[c for c in column_map if c in f.columns]].rename(columns=column_map):
\* column_map is a sequence of << label, display label >> in dict order.
Existing(f, column_map) ==
  MaskSeq(column_map, [k \in 1..Len(column_map) |-> HasCol(f, column_map[k][1])])

Project(f, column_map) ==
  Let(Existing(f, column_map), LAMBDA ex :
    Let([k \in 1..Len(ex) |-> Col(f, ex[k][1])], LAMBDA at :
      Frame([k \in 1..Len(ex) |-> ex[k][2]],
            [i \in 1..Len(f.rows) |-> [k \in 1..Len(ex) |-> f.rows[i][at[k]]]])))

\* the conversion of AbsNumeric without its abs()
CoercedNumeric(f, cols) ==
  Frame(f.columns,
        [i \in 1..Len(f.rows) |->
           [j \in 1..Len(f.columns) |->
              IF f.columns[j] \in cols
                THEN IntCell(ToNumeric(f.rows[i][j]))
                ELSE f.rows[i][j]]])

\* pd.to_numeric(f[col], errors="coerce").fillna(0).abs() for each listed
\* column that the frame has
AbsNumeric(f, cols) ==
  Frame(f.columns,
        [i \in 1..Len(f.rows) |->
           [j \in 1..Len(f.columns) |->
              IF f.columns[j] \in cols
                THEN IntCell(Abs(ToNumeric(f.rows[i][j])))
                ELSE f.rows[i][j]]])

\* the income rows matched to completed orders; the common prefix of the
\* income summaries: lazy load, completed ids, subscript by the id column.
Matched(s) ==
  Then(IF s.income_df = None THEN load_income_data(s) ELSE Ok(s, None), LAMBDA l :
    Then(completed_ids(l.s), LAMBDA c :
      IF c.s.order_id_column = None
        THEN Raise(c.s, "KeyError", "column", None)
        ELSE Ok(c.s, IsinMask(Get(c.s.income_df), Get(c.s.order_id_column),
                              c.val))))

\* IncomeService.get_actual_received_income_summary
get_actual_received_income_summary(s) ==
  Then(Matched(s), LAMBDA m :
    Let(RowsWhere(Get(m.s.income_df), m.val), LAMBDA matched :
      Then(get_projected_income_total(m.s), LAMBDA p :
        Ok(p.s,
           [projected_income |-> p.val,
            actual_received_income |-> safe_sum(matched, cTotalReleased),
            ams_commission_fee |-> safe_sum(matched, cAmsCommissionFee),
            commission_fee |-> safe_sum(matched, cCommissionFee),
            service_fee |-> safe_sum(matched, cServiceFee),
            support_program_fee |-> safe_sum(matched, cSupportProgramFee),
            transaction_fee |-> safe_sum(matched, cTransactionFee),
            withholding_tax |-> safe_sum(matched, cWithholdingTax),
            total_released_amount |-> safe_sum(matched, cTotalReleased)]))))

\* matched & refund_col.notna() & (refund_col.astype(str).str.strip() != "")
RefundMask(f, matched) ==
  Let(ColumnCells(f.rows, Col(f, cRefundId)), LAMBDA cells :
    Let(ColStr(f, cRefundId), LAMBDA c :
      [i \in 1..Len(f.rows) |->
         /\ matched[i]
         /\ cells[i].t # "nan"
         /\ Strip(c[i]) # <<>>]))

\* the rows of both refund queries: matched, refund id not NaN and not blank.
\* income_df.get("refund id") is None when the column is absent, and None
\* has no notna.
Refunded(s) ==
  Then(Matched(s), LAMBDA m :
    IF ~HasCol(Get(m.s.income_df), cRefundId)
      THEN Raise(m.s, "AttributeError", "notna", cRefundId)
      ELSE Ok(m.s, RowsWhere(Get(m.s.income_df),
                             RefundMask(Get(m.s.income_df), m.val))))

\* IncomeService.get_return_refund_summary
get_return_refund_summary(s) ==
  Then(Refunded(s), LAMBDA r :
    Ok(r.s,
       [count |-> Len(r.val.rows),
        total_revenue_loss |-> Abs(safe_sum(r.val, cRefundAmount)),
        reverse_shipping_fee |-> Abs(safe_sum(r.val, cReverseShippingFee))]))

RefundColumnMap(order_id_column) ==
  << << order_id_column, sOrderID >>,
     << cRefundId, dRefundId >>,
     << cUsernameBuyer, dUsernameBuyer >>,
     << cOrderCreationDate, dOrderCreationDate >>,
     << cRefundAmount, dRefundAmount >>,
     << cShippingFeeRebate, dShippingFeeRebate >>,
     << cThirdPartyLogistics, dThirdPartyLogistics >>,
     << cReverseShippingFee, dReverseShippingFee >>,
     << cTotalReleased, dTotalReleased >>,
     << cCashRefund, dCashRefund >> >>

RefundNumericCols ==
  {dRefundAmount, dShippingFeeRebate, dThirdPartyLogistics,
   dReverseShippingFee, dTotalReleased, dCashRefund}

\* IncomeService.get_return_refund_details
get_return_refund_details(s) ==
  Then(Refunded(s), LAMBDA r :
    Ok(r.s, AbsNumeric(Project(r.val, RefundColumnMap(Get(r.s.order_id_column))),
                       RefundNumericCols)))

OverchargeColumnMap(order_id_column) ==
  << << order_id_column, sOrderID >>,
     << cUsernameBuyer, dUsernameBuyer >>,
     << cBuyerPaidShippingFee, dBuyerPaidShippingFee >>,
     << cShippingFeeRebate, dShippingFeeRebate >>,
     << cThirdPartyLogistics, dThirdPartyLogistics >> >>

OverchargeNumericCols ==
  {dBuyerPaidShippingFee, dShippingFeeRebate, dThirdPartyLogistics}

\* sort_values(by=column j, ascending=False): rows with equal keys keep
\* their order.
RECURSIVE SortRowsDesc(_, _)
SortRowsDesc(rows, j) ==
  IF rows = <<>> THEN <<>>
  ELSE Let(CHOOSE i \in 1..Len(rows) :
             /\ \A k \in 1..Len(rows) : rows[k][j].n <= rows[i][j].n
             /\ \A k \in 1..(i - 1) : rows[k][j].n < rows[i][j].n,
           LAMBDA m :
             << rows[m] >>
             \o SortRowsDesc(SubSeq(rows, 1, m - 1)
                               \o SubSeq(rows, m + 1, Len(rows)), j))

\* IncomeService.get_overcharge_shipping_fee_summary
get_overcharge_shipping_fee_summary(s) ==
  Then(Matched(s), LAMBDA m :
    Let(RowsWhere(Get(m.s.income_df), m.val), LAMBDA matched :
    Let(OverchargeColumnMap(Get(m.s.order_id_column)), LAMBDA column_map :
      IF ~HasCol(matched, cThirdPartyLogistics)
        THEN Let(Existing(matched, column_map), LAMBDA existing :
               Ok(m.s, Frame([k \in 1..Len(existing) |-> existing[k][2]], <<>>)))
        ELSE Let(AbsNumeric(Project(matched, column_map), OverchargeNumericCols),
                 LAMBDA cleaned :
                   Ok(m.s, Frame(cleaned.columns,
                                 HeadN(SortRowsDesc(cleaned.rows,
                                                    Col(cleaned, dThirdPartyLogistics)),
                                       Limit)))))))

ReportColumnMap ==
  << << kOrderId, sOrderID >>,
     << cTrackingNumber, dTrackingNumber >>,
     << cEstimatedShipOut, dEstimatedShipOut >>,
     << cOrderCreationDate, dOrderCreationDate >>,
     << cProductName, sProductName >>,
     << cVariationName, dVariationName >>,
     << cOriginalPrice, dOriginalPrice >>,
     << cDealPrice, dDealPrice >>,
     << cProductSubtotal, sProductSubtotal >>,
     << cUsernameBuyer, dUsernameBuyer >> >>

\* DataFrame.fillna("")
FillNa(f) ==
  Frame(f.columns,
        [i \in 1..Len(f.rows) |->
           [j \in 1..Len(f.columns) |->
              IF f.rows[i][j].t = "nan" THEN StrCell(<<>>) ELSE f.rows[i][j]]])

\* get_missing_income_report relabelling the stored order table instead of a
\* new frame
get_missing_income_report_in_place(s) ==
  Then(find_missing_income_orders(s), LAMBDA r :
    Ok([r.s EXCEPT !.df = Some(NormalizeColumns(Get(r.s.df)))],
       FillNa(Project(NormalizeColumns(r.val), ReportColumnMap))))

\* IncomeService.get_missing_income_report
\* The relabelling is done on the frame find_missing_income_orders returned,
\* a new object, not on OrderService.df.
get_missing_income_report(s) ==
  Then(find_missing_income_orders(s), LAMBDA r :
    Ok(r.s, FillNa(Project(NormalizeColumns(r.val), ReportColumnMap))))

\* IncomeService.export_missing_orders_to_excel: the workbook written to the
\* buffer, one sheet with the report's header and rows.
export_missing_orders_to_excel(s) ==
  Then(get_missing_income_report(s), LAMBDA r :
    Ok(r.s, [sheet_name |-> sSheet1,
             columns |-> r.val.columns,
             rows |-> r.val.rows]))

(***************************************************************************)
(* State of one OrderService / IncomeService pair and of its caller.       *)
(***************************************************************************)
VARIABLES
  osrc,             \* OrderService.source
  isrc,             \* IncomeService.source
  df,               \* OrderService.df
  income_df,        \* IncomeService.income_df
  order_id_column,  \* IncomeService.order_id_column
  header_row,       \* the header row found by the last parse of the income sheet
  parsed,           \* the sources parsed by the last call
  result,           \* the last call: its name, and what it returned or raised
  cached_excel,     \* routes._cached_excel
  response,         \* per client, the last response of the web layer
  generated         \* per client, the workbooks exported while serving its uploads

svars == << osrc, isrc, df, income_df, order_id_column, header_row, parsed, result >>

vars == << osrc, isrc, df, income_df, order_id_column, header_row, parsed,
           result, cached_excel, response, generated >>

S ==
  [osrc |-> osrc, isrc |-> isrc, df |-> df, income_df |-> income_df,
   order_id_column |-> order_id_column, header_row |-> header_row,
   parsed |-> parsed]

\* OrderService.__init__ and IncomeService.__init__
NewServices(o, i) ==
  [osrc |-> o, isrc |-> i, df |-> None, income_df |-> None,
   order_id_column |-> None, header_row |-> None, parsed |-> {}]

NoResult == [op |-> "none", ok |-> TRUE, err |-> <<>>, val |-> <<>>]

\* the clients of the web layer
Clients == {"a", "b"}

NoResponse == [page |-> "none", status |-> 0, error |-> <<>>, body |-> None]

\* A call from the caller: r is the outcome of the method on the state at
\* the call, with nothing parsed yet in this call.
Entry == [S EXCEPT !.parsed = {}]

Return(name, r) ==
  /\ df' = r.s.df
  /\ income_df' = r.s.income_df
  /\ order_id_column' = r.s.order_id_column
  /\ header_row' = r.s.header_row
  /\ parsed' = r.s.parsed
  /\ result' = [op |-> name, ok |-> r.ok, err |-> r.err, val |-> r.val]
  /\ UNCHANGED << osrc, isrc, cached_excel, response, generated >>

LoadData ==
  /\ Return("load_data", Ok(load_data(Entry), None))

GetCompletedOrders ==
  /\ Return("get_completed_orders", get_completed_orders(Entry))

GetSummary ==
  /\ Return("get_summary", get_summary(Entry))

GetProjectedIncomeTotal ==
  /\ Return("get_projected_income_total", get_projected_income_total(Entry))

GetTop20ProductsCompleted ==
  /\ Return("get_top_20_products_completed",
            get_top_20_products_completed(Entry))

GetTop20LeastProductsCompleted ==
  /\ Return("get_top_20_least_products_completed",
            get_top_20_least_products_completed(Entry))

GetRegionAnalysisSummary ==
  /\ Return("get_region_analysis_summary", get_region_analysis_summary(Entry))

LoadIncomeData ==
  /\ Return("load_income_data", load_income_data(Entry))

GetIncomeOrderIds ==
  /\ Return("get_income_order_ids", get_income_order_ids(Entry))

FindMissingIncomeOrders ==
  /\ Return("find_missing_income_orders", find_missing_income_orders(Entry))

GetReconciliationSummary ==
  /\ Return("get_reconciliation_summary", get_reconciliation_summary(Entry))

GetActualReceivedIncomeSummary ==
  /\ Return("get_actual_received_income_summary",
            get_actual_received_income_summary(Entry))

GetReturnRefundSummary ==
  /\ Return("get_return_refund_summary", get_return_refund_summary(Entry))

GetReturnRefundDetails ==
  /\ Return("get_return_refund_details", get_return_refund_details(Entry))

GetOverchargeShippingFeeSummary ==
  /\ Return("get_overcharge_shipping_fee_summary",
            get_overcharge_shipping_fee_summary(Entry))

GetMissingIncomeReport ==
  /\ Return("get_missing_income_report", get_missing_income_report(Entry))

ExportMissingOrdersToExcel ==
  /\ Return("export_missing_orders_to_excel",
            export_missing_orders_to_excel(Entry))

(***************************************************************************)
(* Inputs: the spreadsheets handed to the constructors.                    *)
(***************************************************************************)
sOne == << "1" >>
sPaddedOne == << " ","1"," " >>
sTwo == << "2" >>
sThree == << "3" >>
sFour == << "4" >>
sNine == << "9" >>
sLowerCompleted == << "c","o","m","p","l","e","t","e","d" >>
sProductA == << "A" >>
sProductB == << "B" >>
sNotANumber == << "x" >>
sOrderIDPadded == << "O","r","d","e","r"," ","I","D"," " >>
sOrderSN == << "O","r","d","e","r","S","N" >>
sOrderNo == << "O","r","d","e","r"," ","N","o" >>
sDate == << "D","a","t","e" >>
sReport == << "R","e","p","o","r","t" >>
sAmount == << "A","m","o","u","n","t" >>
sSummary == << "S","u","m","m","a","r","y" >>
sFailedDelivery ==
  << "F","a","i","l","e","d"," ","d","e","l","i","v","e","r","y" >>
sCebu == << "C","e","b","u" >>
sR1 == << "R","1" >>
sR2 == << "R","2" >>
sR3 == << "R","3" >>
sRefundIdHeader == << "R","e","f","u","n","d"," ","I","D" >>
sRefundAmountHeader ==
  << "R","e","f","u","n","d"," ","A","m","o","u","n","t" >>
sReverseFeeHeader ==
  << "R","e","v","e","r","s","e"," ","S","h","i","p","p","i","n","g"," ",
     "F","e","e" >>
sBuyerPaidHeader ==
  << "B","u","y","e","r"," ","P","a","i","d"," ","S","h","i","p","p","i",
     "n","g"," ","F","e","e" >>
sThirdPartyHeader ==
  << "3","r","d"," ","P","a","r","t","y"," ","L","o","g","i","s","t","i",
     "c","s"," ","-"," ","D","e","f","i","n","e","d"," ","S","h","i","p",
     "p","i","n","g"," ","F","e","e" >>

\* all sequences of at most n elements of kinds
RowsUpTo(kinds, n) == UNION {[1..k -> kinds] : k \in 0..n}

\* a sheet without the columns whose labels are in gone
DropColumns(sheet, gone) ==
  LET keep == [j \in 1..Len(sheet.labels) |-> sheet.labels[j] \notin gone]
  IN [labels |-> MaskSeq(sheet.labels, keep),
      rows |-> [i \in 1..Len(sheet.rows) |-> MaskSeq(sheet.rows[i], keep)]]

\* Orders sheets.  The Order ID label carries a trailing blank.
OrderLabels ==
  << sOrderIDPadded, sOrderStatus, sProductName, sQuantity, sProductSubtotal,
     sProvince, sCancelReason >>

\* Reconciliation: identifiers as text, padded text and numbers; statuses
\* in both cases.
ReconOrderRows ==
  { << StrCell(sPaddedOne), StrCell(sCompleted), StrCell(sProductA), IntCell(1),
       IntCell(5), StrCell(sVisayas), NaN >>,
    << IntCell(1), StrCell(sLowerCompleted), StrCell(sProductB), IntCell(2),
       IntCell(3), StrCell(sVisayas), NaN >>,
    << StrCell(sTwo), StrCell(sCompleted), StrCell(sProductA), IntCell(1),
       IntCell(5), StrCell(sVisayas), NaN >>,
    << StrCell(sTwo), StrCell(sCancelled), StrCell(sProductA), IntCell(1),
       IntCell(5), StrCell(sVisayas), NaN >> }

ReconOrders ==
  {[labels |-> OrderLabels, rows |-> r] : r \in RowsUpTo(ReconOrderRows, MaxOrderRows)}

\* Orders analytics: statuses, provinces, cancel reasons and amounts vary, and
\* so do the columns the sheet has.
AnalyticsOrderRows ==
  { << StrCell(sOne), StrCell(sCompleted), StrCell(sProductA), IntCell(1),
       IntCell(5), StrCell(sMetroManila), NaN >>,
    << StrCell(sTwo), StrCell(sLowerCompleted), StrCell(sProductB), IntCell(2),
       StrCell(sNotANumber), StrCell(sVisayas), NaN >>,
    << StrCell(sThree), StrCell(sCancelled), StrCell(sProductA), IntCell(1),
       IntCell(5), StrCell(sMindanao), StrCell(sFailedDelivery) >>,
    << StrCell(sFour), StrCell(sDelivered), StrCell(sProductB), NaN,
       IntCell(3), StrCell(sCebu), NaN >> }

MissingColumnSets ==
  { {}, {sProductSubtotal}, {sQuantity}, {sProductName},
    {sProductName, sQuantity}, {sCancelReason},
    {sProductSubtotal, sCancelReason} }

AnalyticsOrders ==
  {DropColumns([labels |-> OrderLabels, rows |-> r], gone) :
     r \in RowsUpTo(AnalyticsOrderRows, MaxOrderRows), gone \in MissingColumnSets}

FixedOrders ==
  [labels |-> OrderLabels,
   rows |-> << << StrCell(sOne), StrCell(sCompleted), StrCell(sProductA),
                  IntCell(1), IntCell(5), StrCell(sVisayas), NaN >>,
               << StrCell(sTwo), StrCell(sLowerCompleted), StrCell(sProductB),
                  IntCell(2), IntCell(3), StrCell(sMindanao), NaN >>,
               << StrCell(sThree), StrCell(sCancelled), StrCell(sProductA),
                  IntCell(1), IntCell(5), StrCell(sVisayas),
                  StrCell(sFailedDelivery) >> >>]

\* Income workbooks.  A sheet has the grid its header-less read shows and the
\* table its read with header=header_row returns.  The two reads number the
\* rows independently (pandas drops the blank rows of a one-column window
\* before numbering), so the table is part of the source and is not derived
\* from the grid row the preview showed.
LabelRow(labels) == [j \in 1..Len(labels) |-> StrCell(labels[j])]

Sheet(name, grid, table) == [name |-> name, grid |-> grid, table |-> table]

\* one sheet whose header row is its first row
OneSheet(table) ==
  [sheets |-> << Sheet(sSheet1, << LabelRow(table.labels) >> \o table.rows, table) >>]

\* an identifier cell, blank in some rows, next to an amount
ReconIncomeRows == {<< id, IntCell(5) >> : id \in {IntCell(1), StrCell(sTwo), NaN}}

ReconIncome ==
  {OneSheet([labels |-> << sOrderIDPadded, sAmount >>, rows |-> r]) :
     r \in RowsUpTo(ReconIncomeRows, MaxIncomeRows)}

IncomeLabels ==
  << sOrderID, sRefundIdHeader, sRefundAmountHeader, sReverseFeeHeader,
     sBuyerPaidHeader, sThirdPartyHeader >>

IncomeRows ==
  { << IntCell(1), StrCell(sR1), IntCell(0 - 5), IntCell(0 - 1), IntCell(2),
       IntCell(7) >>,
    << StrCell(sTwo), NaN, IntCell(0), IntCell(0), IntCell(1), IntCell(3) >>,
    << IntCell(1), StrCell(sR2), IntCell(3), IntCell(2), StrCell(sNotANumber),
       IntCell(9) >>,
    << StrCell(sNine), StrCell(sR3), IntCell(0 - 4), IntCell(0), IntCell(0),
       IntCell(1) >> }

MissingIncomeColumnSets ==
  { {}, {sThirdPartyHeader}, {sThirdPartyHeader, sBuyerPaidHeader},
    {sRefundIdHeader}, {sRefundIdHeader, sThirdPartyHeader} }

AnalyticsIncome ==
  {OneSheet(DropColumns([labels |-> IncomeLabels, rows |-> r], gone)) :
     r \in RowsUpTo(IncomeRows, MaxIncomeRows), gone \in MissingIncomeColumnSets}

FixedIncome ==
  OneSheet([labels |-> IncomeLabels,
            rows |-> << << IntCell(1), StrCell(sR1), IntCell(0 - 5),
                           IntCell(0 - 1), IntCell(2), IntCell(7) >> >>])

\* Loading: grids of n rows in which at most two rows hold a keyword, the
\* first at any position, and tables with and without an identifier column.
FillerRow == << StrCell(sReport), NaN >>
HeaderRowA == << StrCell(sDate), StrCell(sOrderSN) >>
HeaderRowB == << StrCell(sOrderIDPadded), StrCell(sAmount) >>

GridWith(n, at) ==
  [i \in 1..n |->
     IF i \notin at THEN FillerRow
     ELSE IF \A k \in at : i <= k THEN HeaderRowA ELSE HeaderRowB]

Grids ==
  {GridWith(n, at) : n \in {0, 2, SheetRows},
                     at \in {{}} \cup {{a, b} : a \in 1..SheetRows,
                                               b \in {1, 8, SheetRows}}}

LoadTables ==
  { [labels |-> << sDate, sOrderNo, sOrderSN >>,
     rows |-> << << NaN, IntCell(1), StrCell(sTwo) >> >>],
    [labels |-> << sDate, sAmount >>,
     rows |-> << << NaN, IntCell(5) >> >>] }

LoadIncome ==
  {[sheets |-> << Sheet(sSheet1, g, tb) >>] : g \in Grids, tb \in LoadTables}
  \cup
  {[sheets |-> << Sheet(sSummary, << FillerRow >>, tb),
                  Sheet(sIncome, << HeaderRowA >>, FixedIncome.sheets[1].table) >>] :
     tb \in LoadTables}

InitWith(orders, incomes) ==
  /\ osrc \in orders
  /\ isrc \in incomes
  /\ df = None
  /\ income_df = None
  /\ order_id_column = None
  /\ header_row = None
  /\ parsed = {}
  /\ result = NoResult
  /\ cached_excel = None
  /\ response = [c \in Clients |-> NoResponse]
  /\ generated = [c \in Clients |-> {}]

(***************************************************************************)
(* The web layer (app/routes.py).  An uploaded file has a name, a size in  *)
(* bytes and the workbook it holds; a form field without a file is None.   *)
(***************************************************************************)
MAX_FILE_SIZE_MB == 10

ALLOWED_EXTENSIONS == { << ".","x","l","s","x" >>, << ".","x","l","s" >> }

sOrderPrefix == << "o","r","d","e","r" >>
sIncomePrefix == << "i","n","c","o","m","e" >>

\* the positions of character c in name
Positions(name, c) == {i \in 1..Len(name) : name[i] = c}

Max(xs) == CHOOSE x \in xs : \A y \in xs : y <= x

\* os.path.splitext(name)[1]: from the last dot on, when that dot comes after
\* the last separator and after a character of the file name that is no dot
SplitExt(name) ==
  Let(IF Positions(name, "/") = {} THEN 0 ELSE Max(Positions(name, "/")), LAMBDA sep :
    Let(IF Positions(name, ".") = {} THEN 0 ELSE Max(Positions(name, ".")), LAMBDA dot :
      IF dot > sep /\ \E i \in (sep + 1)..(dot - 1) : name[i] # "."
        THEN SubSeq(name, dot, Len(name))
        ELSE <<>>))

\* "not file": a FileStorage is falsy when it has no file name
Falsy(file) == file = None \/ Get(file).filename = <<>>

\* _is_allowed_excel
is_allowed_excel(file) ==
  ~Falsy(file) /\ Lower(SplitExt(Get(file).filename)) \in ALLOWED_EXTENSIONS

\* _is_file_size_valid: size / (1024 * 1024) <= MAX_FILE_SIZE_MB
is_file_size_valid(file) == Get(file).size <= MAX_FILE_SIZE_MB * (1024 * 1024)

StartsWith(s, prefix) ==
  Len(prefix) <= Len(s) /\ SubSeq(s, 1, Len(prefix)) = prefix

\* _filename_starts_with
filename_starts_with(file, prefix) ==
  ~Falsy(file) /\ StartsWith(Strip(Lower(Get(file).filename)), Lower(prefix))

\* the first validation of lines 57-112 that rejects the upload, None when
\* every one passes
Rejection(orders_file, income_file) ==
  IF Falsy(orders_file) \/ Falsy(income_file) THEN Some("upload both files")
  ELSE IF ~is_allowed_excel(orders_file) THEN Some("orders file type")
  ELSE IF ~is_allowed_excel(income_file) THEN Some("income file type")
  ELSE IF ~is_file_size_valid(orders_file) THEN Some("orders file size")
  ELSE IF ~is_file_size_valid(income_file) THEN Some("income file size")
  ELSE IF ~filename_starts_with(orders_file, sOrderPrefix)
    THEN Some("orders file name")
  ELSE IF ~filename_starts_with(income_file, sIncomePrefix)
    THEN Some("income file name")
  ELSE None

\* income_service.get_shipping_overcharge_status(): IncomeService has no such
\* attribute
get_shipping_overcharge_status(s) ==
  Raise(s, "AttributeError", "get_shipping_overcharge_status", <<>>)

\* lines 129-148 of index: the summaries and reports computed before the
\* export, each on the state the call before it left
Reports(s) ==
  Then(get_summary(s), LAMBDA order_summary :
  Then(get_reconciliation_summary(order_summary.s), LAMBDA recon_summary :
  Then(get_missing_income_report(recon_summary.s), LAMBDA missing_report :
  Then(get_actual_received_income_summary(missing_report.s), LAMBDA income_summary :
  Then(get_return_refund_summary(income_summary.s), LAMBDA refund_summary :
  Then(get_return_refund_details(refund_summary.s), LAMBDA refund_details :
  Then(get_top_20_products_completed(refund_details.s), LAMBDA top_products :
  Then(get_top_20_least_products_completed(top_products.s), LAMBDA least_products :
  Then(get_overcharge_shipping_fee_summary(least_products.s), LAMBDA overcharge :
    Ok(overcharge.s, [can_download |-> Len(missing_report.val.rows) > 0]))))))))))

\* lines 154-171 of index, after the export was cached
AfterExport(s, page) ==
  Then(get_shipping_overcharge_status(s), LAMBDA shipping_overcharge :
  Then(get_region_analysis_summary(shipping_overcharge.s), LAMBDA region_summary :
    Ok(region_summary.s, page)))

\* The response that ends a request: a rendered page, or the 500 that
\* follows an exception leaving the handler.
Page(name, error) == [page |-> name, status |-> 200, error |-> error, body |-> None]

ServerError(err) == [page |-> "error", status |-> 500, error |-> err, body |-> None]

Rendered(r) == IF r.ok THEN Page("results.html", <<>>) ELSE ServerError(r.err)

\* index() on a POST from client c (lines 50-171)
IndexPost(c, orders_file, income_file) ==
  /\ IF Rejection(orders_file, income_file) # None
       THEN /\ response' =
                 [response EXCEPT ![c] =
                    Page("index.html", Get(Rejection(orders_file, income_file)))]
            /\ UNCHANGED << cached_excel, generated >>
       ELSE \E r \in {Reports(NewServices(Get(orders_file).content,
                                          Get(income_file).content))} :
              IF ~r.ok
                THEN /\ response' = [response EXCEPT ![c] = ServerError(r.err)]
                     /\ UNCHANGED << cached_excel, generated >>
                ELSE \E x \in {export_missing_orders_to_excel(r.s)} :
                       IF ~x.ok
                         THEN /\ response' =
                                   [response EXCEPT ![c] = ServerError(x.err)]
                              /\ UNCHANGED << cached_excel, generated >>
                         ELSE /\ cached_excel' = Some(x.val)
                              /\ generated' =
                                   [generated EXCEPT ![c] = @ \cup {x.val}]
                              /\ response' =
                                   [response EXCEPT
                                      ![c] = Rendered(AfterExport(x.s, r.val))]
  /\ UNCHANGED svars

\* index() on a GET (line 176)
IndexGet(c) ==
  /\ response' = [response EXCEPT ![c] = Page("index.html", <<>>)]
  /\ UNCHANGED << cached_excel, generated >>
  /\ UNCHANGED svars

\* download_report() (lines 179-194)
DownloadReport(c) ==
  /\ response' =
       [response EXCEPT
          ![c] = IF cached_excel = None
                   THEN [page |-> "none", status |-> 400,
                         error |-> "No report available to download.",
                         body |-> None]
                   ELSE [page |-> "missing_income_orders.xlsx", status |-> 200,
                         error |-> <<>>, body |-> cached_excel]]
  /\ UNCHANGED << cached_excel, generated >>
  /\ UNCHANGED svars

\* Uploads: file names with and without the expected prefix and extension,
\* sizes on both sides of the limit, and workbooks whose missing-income
\* reports differ.
sOrderXlsx == << "O","r","d","e","r",".","a","l","l",".","x","l","s","x" >>
sOrderCsv == << "o","r","d","e","r",".","c","s","v" >>
sSalesXlsx == << "s","a","l","e","s",".","x","l","s","x" >>
sIncomeXls == << "I","n","c","o","m","e",".","r","e","l","e","a","s","e","d",".","X","L","S" >>
sIncomeTxt == << "i","n","c","o","m","e",".","t","x","t" >>
sReportXlsx == << "r","e","p","o","r","t",".","x","l","s","x" >>

OneMiB == 1024 * 1024

File(filename, size, content) ==
  Some([filename |-> filename, size |-> size, content |-> content])

OtherOrders ==
  [labels |-> OrderLabels,
   rows |-> << << StrCell(sFour), StrCell(sCompleted), StrCell(sProductB),
                  IntCell(1), IntCell(3), StrCell(sCebu), NaN >> >>]

NoHeaderIncome ==
  [sheets |-> << Sheet(sSheet1, << FillerRow >>, FixedIncome.sheets[1].table) >>]

GoodOrders == File(sOrderXlsx, OneMiB, FixedOrders)

GoodIncome == File(sIncomeXls, MAX_FILE_SIZE_MB * OneMiB, FixedIncome)

\* << orders_file, income_file >> : one upload per validation that rejects,
\* and uploads that pass them all
Uploads ==
  { << None, GoodIncome >>,
    << GoodOrders, File(<<>>, OneMiB, FixedIncome) >>,
    << File(sOrderCsv, OneMiB, FixedOrders), GoodIncome >>,
    << GoodOrders, File(sIncomeTxt, OneMiB, FixedIncome) >>,
    << File(sOrderXlsx, MAX_FILE_SIZE_MB * OneMiB + 1, FixedOrders), GoodIncome >>,
    << GoodOrders, File(sIncomeXls, MAX_FILE_SIZE_MB * OneMiB + 1, FixedIncome) >>,
    << File(sSalesXlsx, OneMiB, FixedOrders), GoodIncome >>,
    << GoodOrders, File(sReportXlsx, OneMiB, FixedIncome) >>,
    << GoodOrders, GoodIncome >>,
    << File(sOrderXlsx, OneMiB, OtherOrders), GoodIncome >>,
    << GoodOrders, File(sIncomeXls, OneMiB, NoHeaderIncome) >> }

(***************************************************************************)
(* Specifications: the same objects, driven with different families of     *)
(* inputs and the calls that concern them.                                 *)
(***************************************************************************)
\* Reconciliation.
Init == InitWith(ReconOrders, ReconIncome)

Next ==
  \/ LoadData
  \/ GetCompletedOrders
  \/ LoadIncomeData
  \/ GetIncomeOrderIds
  \/ FindMissingIncomeOrders
  \/ GetReconciliationSummary
  \/ GetMissingIncomeReport
  \/ ExportMissingOrdersToExcel

Spec == Init /\ [][Next]_vars

\* Loading the income workbook.
InitLoad == InitWith({FixedOrders}, LoadIncome)

NextLoad ==
  \/ LoadData
  \/ GetSummary
  \/ LoadIncomeData
  \/ GetIncomeOrderIds
  \/ FindMissingIncomeOrders
  \/ GetReconciliationSummary
  \/ GetMissingIncomeReport
  \/ GetActualReceivedIncomeSummary
  \/ GetReturnRefundSummary
  \/ GetReturnRefundDetails
  \/ GetOverchargeShippingFeeSummary
  \/ ExportMissingOrdersToExcel

SpecLoad == InitLoad /\ [][NextLoad]_vars

\* Order analytics.
InitOrders == InitWith(AnalyticsOrders, {FixedIncome})

NextOrders ==
  \/ LoadData
  \/ GetCompletedOrders
  \/ GetSummary
  \/ GetProjectedIncomeTotal
  \/ GetTop20ProductsCompleted
  \/ GetTop20LeastProductsCompleted
  \/ GetRegionAnalysisSummary
  \/ GetReconciliationSummary
  \/ GetMissingIncomeReport

SpecOrders == InitOrders /\ [][NextOrders]_vars

\* Income analytics.
InitIncome == InitWith({FixedOrders}, AnalyticsIncome)

NextIncome ==
  \/ LoadIncomeData
  \/ GetActualReceivedIncomeSummary
  \/ GetReturnRefundSummary
  \/ GetReturnRefundDetails
  \/ GetOverchargeShippingFeeSummary

SpecIncome == InitIncome /\ [][NextIncome]_vars

\* The web layer, two clients.
InitWeb == InitWith({FixedOrders}, {FixedIncome})

NextWeb ==
  \/ \E c \in Clients : \E files \in Uploads : IndexPost(c, files[1], files[2])
  \/ \E c \in Clients : IndexGet(c)
  \/ \E c \in Clients : DownloadReport(c)

SpecWeb == InitWeb /\ [][NextWeb]_vars

\* Every method of both services, on order tables with and without the
\* analytics columns and on income workbooks that load, that have no header
\* row and that have no identifier column.
QueryOrders ==
  {DropColumns(FixedOrders, gone) :
     gone \in {{}, {sCancelReason}, {sProductSubtotal, sCancelReason}}}
  \cup {[labels |-> OrderLabels, rows |-> << r >>] : r \in AnalyticsOrderRows}

QueryIncome ==
  {FixedIncome,
   OneSheet(DropColumns(FixedIncome.sheets[1].table, {sThirdPartyHeader})),
   [sheets |-> << Sheet(sSheet1, << FillerRow >>, FixedIncome.sheets[1].table) >>]}
  \cup {[sheets |-> << Sheet(sSheet1, << HeaderRowA >>, tb) >>] : tb \in LoadTables}

InitQueries == InitWith(QueryOrders, QueryIncome)

NextQueries ==
  \/ LoadData
  \/ GetCompletedOrders
  \/ GetSummary
  \/ GetProjectedIncomeTotal
  \/ GetTop20ProductsCompleted
  \/ GetTop20LeastProductsCompleted
  \/ GetRegionAnalysisSummary
  \/ LoadIncomeData
  \/ GetIncomeOrderIds
  \/ FindMissingIncomeOrders
  \/ GetReconciliationSummary
  \/ GetActualReceivedIncomeSummary
  \/ GetReturnRefundSummary
  \/ GetReturnRefundDetails
  \/ GetOverchargeShippingFeeSummary
  \/ GetMissingIncomeReport
  \/ ExportMissingOrdersToExcel

SpecQueries == InitQueries /\ [][NextQueries]_vars


(***************************************************************************)
(* Properties.  They are stated on the sources (osrc, isrc) and on the     *)
(* outcome of the last call (result), with the conversions below, which    *)
(* look at one cell at a time.                                             *)
(***************************************************************************)
\* str(value) of one cell value, whatever column it stands in
CellStr(cell) ==
  CASE cell.t = "str" -> cell.s
    [] cell.t = "int" -> IntStr(cell.n)
    [] OTHER -> << "n","a","n" >>

\* an identifier converted to string and trimmed
TrimmedId(cell) == Strip(CellStr(cell))

\* the cells of the first column of a sheet whose label satisfies Is
SourceColumn(sheet, Is(_)) ==
  ColumnCells(sheet.rows,
              CHOOSE j \in 1..Len(sheet.labels) :
                /\ Is(sheet.labels[j])
                /\ \A k \in 1..(j - 1) : ~Is(sheet.labels[k]))

HasLabel(sheet, name) == \E j \in 1..Len(sheet.labels) : Strip(sheet.labels[j]) = name

IsIdLabel(label) ==
  \E k \in 1..Len(Keywords) : Contains(Keywords[k], Lower(Strip(label)))

OrderIdCells == SourceColumn(osrc, LAMBDA l : Strip(l) = sOrderID)

OrderStatusCells == SourceColumn(osrc, LAMBDA l : Strip(l) = sOrderStatus)

IncomeTable == PickSheet(isrc).table

IncomeIdCells == SourceColumn(IncomeTable, IsIdLabel)

CompletedRows ==
  {i \in 1..Len(osrc.rows) : Lower(CellStr(OrderStatusCells[i])) = Lower(sCompleted)}

CompletedIdsOfSource == {TrimmedId(OrderIdCells[i]) : i \in CompletedRows}

IncomeIdsOfSource == {TrimmedId(IncomeIdCells[i]) : i \in 1..Len(IncomeTable.rows)}

Unique(cells) ==
  \A i, j \in 1..Len(cells) : i # j => TrimmedId(cells[i]) # TrimmedId(cells[j])

\* C1: the reconciliation summary counts the distinct trimmed-string
\* identifiers: completed_orders those of the completed orders,
\* orders_with_income those of the income table, missing_income_orders the
\* completed ones that are not income ones.
C1_SummaryCountsDistinctIds ==
  result.op = "get_reconciliation_summary" =>
    /\ result.ok
    /\ result.val =
         [completed_orders |-> Cardinality(CompletedIdsOfSource),
          orders_with_income |-> Cardinality(IncomeIdsOfSource),
          missing_income_orders |->
            Cardinality(CompletedIdsOfSource \ IncomeIdsOfSource)]
    /\ result.val.missing_income_orders =
         Cardinality(CompletedIdsOfSource)
           - Cardinality(CompletedIdsOfSource \cap IncomeIdsOfSource)

\* C2: when the identifiers are unique within the orders table and within
\* the income table, the missing_income_orders of the reconciliation summary
\* is the number of rows of the missing income report: whichever of the two
\* was just returned agrees with what the other returns in the same state.
C2_MissingCountIsReportRows ==
  (Unique(OrderIdCells) /\ Unique(IncomeIdCells)) =>
    /\ result.op = "get_missing_income_report" =>
         /\ result.ok
         /\ get_reconciliation_summary(S).ok
         /\ get_reconciliation_summary(S).val.missing_income_orders
              = Len(result.val.rows)
    /\ result.op = "get_reconciliation_summary" =>
         /\ result.ok
         /\ get_missing_income_report(S).ok
         /\ Len(get_missing_income_report(S).val.rows)
              = result.val.missing_income_orders

\* a report of one row was returned for two orders and an income table, all
\* identifiers unique
C2_Witness ==
  /\ result.op = "get_missing_income_report"
  /\ result.ok
  /\ Unique(OrderIdCells) /\ Unique(IncomeIdCells)
  /\ Len(osrc.rows) = 2
  /\ Len(IncomeTable.rows) >= 1
  /\ Len(result.val.rows) = 1

\* C3: find_missing_income_orders returns exactly the completed order rows
\* whose Order ID, converted to string and trimmed, is not among the income
\* identifiers converted to string and trimmed; the padded text " 1 " matches
\* the number 1.
C3_MissingAreCompletedNotInIncome ==
  result.op = "find_missing_income_orders" =>
    /\ result.ok
    /\ result.val.rows =
         MaskSeq(osrc.rows,
                 [i \in 1..Len(osrc.rows) |->
                    /\ i \in CompletedRows
                    /\ TrimmedId(OrderIdCells[i]) \notin IncomeIdsOfSource])

\* C4: a load call on a component that is loaded is a no-op: nothing is
\* parsed and the stored tables and the identifier column are unchanged, so
\* every query is answered from the same state as after one load.
C4_SecondLoadIsNoOp ==
  [][ /\ (result'.op = "load_data" /\ df # None) =>
           /\ result'.ok
           /\ parsed' = {}
           /\ UNCHANGED << df, income_df, order_id_column, header_row >>
      /\ (result'.op = "load_income_data" /\ income_df # None) =>
           /\ result'.ok
           /\ parsed' = {}
           /\ UNCHANGED << df, income_df, order_id_column, header_row >>
    ]_vars

\* load_income_data has returned from an object that was loaded already
C4_Witness ==
  /\ result.op = "load_income_data"
  /\ result.ok
  /\ parsed = {}
  /\ income_df # None
  /\ order_id_column # None

\* a row in which a lower-cased cell contains a keyword
KeywordRow(row) ==
  \E j \in 1..Len(row) : \E k \in 1..Len(Keywords) :
    Contains(Keywords[k], Lower(CellStr(row[j])))

\* the rows of the preview window (the first 30) that hold a keyword
KeywordRowsInWindow ==
  {i \in 1..Len(PickSheet(isrc).grid) : i <= 30 /\ KeywordRow(PickSheet(isrc).grid[i])}

\* C5: a load that parses the workbook detects as header the first row of
\* the 30-row preview that holds a keyword (no earlier row holds one), and
\* fails with the header-not-found error exactly when no row of the preview
\* holds a keyword.
C5_HeaderIsFirstKeywordRow ==
  (result.op = "load_income_data" /\ "income" \in parsed) =>
    /\ KeywordRowsInWindow = {} <=>
         (~result.ok /\ result.err = << "ValueError", "header row", <<>> >>)
    /\ KeywordRowsInWindow = {} => header_row = None
    /\ KeywordRowsInWindow # {} =>
         /\ header_row # None
         /\ Get(header_row) + 1 \in KeywordRowsInWindow
         /\ \A i \in KeywordRowsInWindow : Get(header_row) + 1 <= i

\* row 7 (from 0) was detected in a sheet that holds a keyword in a later
\* row too
C5_Witness ==
  /\ result.op = "load_income_data"
  /\ "income" \in parsed
  /\ header_row = Some(7)
  /\ \E i \in KeywordRowsInWindow : i > 8
  /\ Len(PickSheet(isrc).grid) > 30

ExpectedOverchargeHeaders ==
  << sOrderID, dUsernameBuyer, dBuyerPaidShippingFee, dShippingFeeRebate,
     dThirdPartyLogistics >>

\* C6: when the income table has no 3rd party logistics column, the
\* overcharge summary returns without error a table of zero rows that
\* carries the five expected column headers.
C6_EmptyTableHasExpectedHeaders ==
  (/\ result.op = "get_overcharge_shipping_fee_summary"
   /\ \A j \in 1..Len(IncomeTable.labels) :
        Lower(Strip(IncomeTable.labels[j])) # cThirdPartyLogistics) =>
    /\ result.ok
    /\ result.val.rows = <<>>
    /\ result.val.columns = ExpectedOverchargeHeaders

NeedsProductColumns ==
  {"get_projected_income_total", "get_top_20_products_completed",
   "get_top_20_least_products_completed"}

NeedsNoProductColumn ==
  {"get_summary", "get_completed_orders", "get_region_analysis_summary",
   "get_reconciliation_summary", "get_missing_income_report"}

\* C7: a missing product column is fatal only for the operation that needs
\* it: the failing call names the missing column and leaves the stored state
\* as a load leaves it, and an operation that does not need the column,
\* called after the failure, succeeds.
C7_OtherOperationsStillSucceed ==
  [][ /\ (result'.op \in NeedsProductColumns /\ ~result'.ok) =>
           /\ result'.err[1] = "ValueError"
           /\ result'.err[2] = "missing column"
           /\ ~HasLabel(osrc, result'.err[3])
           /\ df' = load_data(Entry).df
           /\ UNCHANGED << income_df, order_id_column >>
      /\ (/\ result.op \in NeedsProductColumns
          /\ ~result.ok
          /\ result'.op \in NeedsNoProductColumn) => result'.ok
    ]_vars

IncomeOperations ==
  {"load_income_data", "get_income_order_ids", "find_missing_income_orders",
   "get_reconciliation_summary", "get_missing_income_report",
   "get_actual_received_income_summary", "get_return_refund_summary",
   "get_return_refund_details", "get_overcharge_shipping_fee_summary",
   "export_missing_orders_to_excel"}

C9_RegionAnalysisWithoutCancelReason ==
  (/\ result.op = "get_region_analysis_summary"
   /\ HasLabel(osrc, sOrderStatus)
   /\ HasLabel(osrc, sProvince)
   /\ ~HasLabel(osrc, sCancelReason)) =>
    /\ result.ok
    /\ \A k \in 1..Len(result.val) : result.val[k].failed_deliveries = 0

\* C10: a download answered with a workbook answers with one that was
\* exported while serving an upload of the same client.
C10_DownloadIsOwnArtifact ==
  \A c \in Clients :
    (response[c].status = 200 /\ response[c].body # None) =>
      Get(response[c].body) \in generated[c]

\* C11: every row completedOrders returns is counted as completed_delivered
\* in one region, so a successful region analysis has a total of
\* completed_delivered over its regions of at least the number of rows whose
\* Order Status is "completed" in any case.
C11_RegionTotalCoversCompleted ==
  (result.op = "get_region_analysis_summary" /\ result.ok) =>
    SumSeq([k \in 1..Len(result.val) |-> result.val[k].completed_delivered])
      >= Cardinality(CompletedRows)

\* the services as constructed on the sources, nothing loaded
Fresh == NewServices(osrc, isrc)

QueryOperations ==
  {"get_completed_orders", "get_summary", "get_projected_income_total",
   "get_top_20_products_completed", "get_top_20_least_products_completed",
   "get_region_analysis_summary", "get_income_order_ids",
   "find_missing_income_orders", "get_reconciliation_summary",
   "get_missing_income_report", "get_actual_received_income_summary",
   "get_return_refund_summary", "get_return_refund_details",
   "get_overcharge_shipping_fee_summary"}

\* the outcome of the query called name on the services s
Query(name, s) ==
  CASE name = "get_completed_orders" -> get_completed_orders(s)
    [] name = "get_summary" -> get_summary(s)
    [] name = "get_projected_income_total" -> get_projected_income_total(s)
    [] name = "get_top_20_products_completed" -> get_top_20_products_completed(s)
    [] name = "get_top_20_least_products_completed" ->
         get_top_20_least_products_completed(s)
    [] name = "get_region_analysis_summary" -> get_region_analysis_summary(s)
    [] name = "get_income_order_ids" -> get_income_order_ids(s)
    [] name = "find_missing_income_orders" -> find_missing_income_orders(s)
    [] name = "get_reconciliation_summary" -> get_reconciliation_summary(s)
    [] name = "get_missing_income_report" -> get_missing_income_report(s)
    [] name = "get_actual_received_income_summary" ->
         get_actual_received_income_summary(s)
    [] name = "get_return_refund_summary" -> get_return_refund_summary(s)
    [] name = "get_return_refund_details" -> get_return_refund_details(s)
    [] OTHER -> get_overcharge_shipping_fee_summary(s)

\* a query that returns, before or after other calls, returns the same value
SameResult(res, r) ==
  (res.ok \/ r.ok) => (res.ok = r.ok /\ res.err = r.err /\ res.val = r.val)

\* the stored tables and identifier column are what a load of the sources
\* produces
StoredAsLoaded(d, i, c) ==
  /\ d # None => d = load_data(Fresh).df
  /\ i # None => /\ i = load_income_data(Fresh).s.income_df
                 /\ c = load_income_data(Fresh).s.order_id_column

\* C12: after a query the stored order table, income table and identifier
\* column are what load produces from the sources, and a query that returns
\* a result returns the one it returns on freshly constructed services,
\* whatever ran before it.
C12_QueriesLeaveStoredState ==
  [][ result'.op \in QueryOperations =>
        /\ StoredAsLoaded(df', income_df', order_id_column')
        /\ SameResult(result', Query(result'.op, Fresh))
    ]_vars

\* the product ranking, which converts columns of the completed rows, has
\* run on services whose two tables were loaded by earlier calls
C12_Witness ==
  /\ result.op = "get_top_20_products_completed"
  /\ result.ok
  /\ Len(result.val) > 0
  /\ parsed = {}
  /\ df # None
  /\ income_df # None
  /\ order_id_column # None

C14_CacheOnlyAfterRenderedUpload ==
  [][ cached_excel' # cached_excel =>
        \E c \in Clients : /\ response'[c].page = "results.html"
                            /\ response'[c].status = 200
                            /\ \A o \in Clients \ {c} : response'[o] = response[o]
    ]_vars

\* the sum of a column of a table, 0 when the table lacks it
ColumnTotal(f, name) == IF HasCol(f, name) THEN NumericSum(f, name) ELSE 0

\* the values of a column of the refund rows are not of both signs
OneSign(f, name) ==
  \/ ~HasCol(f, name)
  \/ \A i \in 1..Len(f.rows) : ToNumeric(f.rows[i][Col(f, name)]) >= 0
  \/ \A i \in 1..Len(f.rows) : ToNumeric(f.rows[i][Col(f, name)]) <= 0

\* C15 as stated: the refund summary's count is the number of rows of the
\* refund detail table, its Total Revenue Loss the sum of the detail table's
\* Refund Amount column and its Reverse Shipping Fee Charged to Seller the
\* sum of the detail table's Reverse Shipping Fee column.
C15_SummaryEqualsDetailSums ==
  (result.op = "get_return_refund_summary" /\ result.ok) =>
    /\ get_return_refund_details(S).ok
    /\ result.val.count = Len(get_return_refund_details(S).val.rows)
    /\ result.val.total_revenue_loss =
         ColumnTotal(get_return_refund_details(S).val, dRefundAmount)
    /\ result.val.reverse_shipping_fee =
         ColumnTotal(get_return_refund_details(S).val, dReverseShippingFee)

\* C15, amended: the count is the number of detail rows; each total is at
\* most the sum of its detail column, and equal to it when the refund rows'
\* values in that column are not of both signs.
C15_SummaryWithinDetailSums ==
  (result.op = "get_return_refund_summary" /\ result.ok) =>
    /\ get_return_refund_details(S).ok
    /\ result.val.count = Len(get_return_refund_details(S).val.rows)
    /\ result.val.total_revenue_loss <=
         ColumnTotal(get_return_refund_details(S).val, dRefundAmount)
    /\ result.val.reverse_shipping_fee <=
         ColumnTotal(get_return_refund_details(S).val, dReverseShippingFee)
    /\ OneSign(Refunded(S).val, cRefundAmount) =>
         result.val.total_revenue_loss =
           ColumnTotal(get_return_refund_details(S).val, dRefundAmount)
    /\ OneSign(Refunded(S).val, cReverseShippingFee) =>
         result.val.reverse_shipping_fee =
           ColumnTotal(get_return_refund_details(S).val, dReverseShippingFee)

\* a summary over two refund rows with negative amounts
C15_Witness ==
  /\ result.op = "get_return_refund_summary"
  /\ result.ok
  /\ result.val.count = 2
  /\ result.val.total_revenue_loss = 10
  /\ result.val.reverse_shipping_fee = 2

====
